---------------------------- MODULE Spec2Model ----------------------------
(***************************************************************************)
(* A model of the todo store of WD2026/todo-start: the data-access object  *)
(* TodoDao (src/persistence.py), the Pydantic models it stores             *)
(* (src/models.py) and the request handlers in front of it (src/main.py).  *)
(*                                                                         *)
(* A text is a sequence of one-character strings, so that str.strip() and  *)
(* len() are computed as Python computes them.  self.todos is a Python     *)
(* dict, which keeps insertion order: it is a sequence of entries          *)
(* [key, todo], the key being the dict key and todo the Todo object.  The   *)
(* backing file is absent, holds text that is not a JSON document (torn),  *)
(* or holds a JSON array of objects.                                       *)
(*                                                                         *)
(* Spec runs the calls of one caller one after the other (each call is one *)
(* step).  ConcSpec runs the calls of several threads on one store, one    *)
(* step per statement that another thread can observe.                     *)
(***************************************************************************)
EXTENDS Integers, Sequences, FiniteSets, TLC

(***************************************************************************)
(* Bounds of the model.                                                    *)
(***************************************************************************)
\* save is not called once the next id would exceed MaxId
MaxId == 2
\* the ids found in a backing file at start-up are 0..MaxFileId
MaxFileId == 1
\* a backing file at start-up holds at most MaxFileLen objects
MaxFileLen == 1
\* at most MaxWriteFailures file writes fail
MaxWriteFailures == 1
\* the threads start at most MaxCalls calls
MaxCalls == 3
\* the threads of FairSpec start at most MaxFairCalls calls
MaxFairCalls == 2

\* src/models.py line 9
MIN_TEXT_LENGTH == 2

\* The texts callers send: "a", "  ab  ", "cd"
TextInputs == { <<"a">>, <<" ", " ", "a", "b", " ", " ">>, <<"c", "d">> }

\* The texts the objects of a start-up file hold: " a", " ab"
FileTexts == { <<" ", "a">>, <<" ", "a", "b">> }

Whitespace == {" "}

VARIABLES
  file,        \* the backing file: [kind: absent | torn | json, objs: the JSON array]
  todos,       \* self.todos, in insertion order: sequence of [key, todo]
  status,      \* "new" before TodoDao(filename), then "ready", or "failed" when __init__ raised
  ret,         \* the call that returned last: [op, outcome, id, value]
  maxAssigned, \* history: the greatest id any save has returned so far (0: none)
  saveRun,     \* history: N when the store started empty and N successful saves,
               \* and no other mutating call, followed; else -1
  failures,    \* history: number of file writes that failed
  lock,        \* self.lock: 0 when free, else the thread that holds it
  threads,     \* per thread: the call it is in, where, and how its last call ended
  calls        \* history: number of calls the threads have started

vars ==
  <<file, todos, status, ret, maxAssigned, saveRun, failures, lock, threads, calls>>

\* the history variables and the state of the threads
hist == <<maxAssigned, saveRun, failures>>
conc == <<lock, threads, calls>>

(***************************************************************************)
(* Python dict operations on the ordered sequence of entries.              *)
(***************************************************************************)
Keys(d) == { d[i].key : i \in DOMAIN d }

DictHas(d, k) == k \in Keys(d)

DictIndex(d, k) == CHOOSE i \in DOMAIN d : d[i].key = k

\* d[k]
DictGet(d, k) == d[DictIndex(d, k)].todo

\* d[k] = v: an existing key keeps its position, a new key goes last
DictSet(d, k, v) ==
  IF DictHas(d, k)
    THEN [d EXCEPT ![DictIndex(d, k)] = [key |-> k, todo |-> v]]
    ELSE Append(d, [key |-> k, todo |-> v])

\* del d[k]
DictDel(d, k) ==
  LET i == DictIndex(d, k)
  IN  SubSeq(d, 1, i - 1) \o SubSeq(d, i + 1, Len(d))

\* list(d.values())
Values(d) == [i \in DOMAIN d |-> d[i].todo]

\* max(d.keys()), for a non-empty d
MaxKey(d) == CHOOSE k \in Keys(d) : \A j \in Keys(d) : j <= k


(***************************************************************************)
(* src/models.py: the Pydantic models.                                     *)
(***************************************************************************)
RECURSIVE LStrip(_)
LStrip(v) ==
  IF v # <<>> /\ Head(v) \in Whitespace THEN LStrip(Tail(v)) ELSE v

RECURSIVE RStrip(_)
RStrip(v) ==
  IF v # <<>> /\ v[Len(v)] \in Whitespace
    THEN RStrip(SubSeq(v, 1, Len(v) - 1))
    ELSE v

\* str.strip()
Strip(v) == LStrip(RStrip(v))

\* a validator that checks the length and keeps the text as sent
validate_text_NoStrip(v) ==
  IF Len(v) < MIN_TEXT_LENGTH
    THEN [ok |-> FALSE, text |-> <<>>]
    ELSE [ok |-> TRUE, text |-> v]

\* TodoCreate.validate_text: the stripped text, or a ValueError when it is too short
validate_text(v) ==
  LET s == Strip(v)
  IN  IF Len(s) < MIN_TEXT_LENGTH
        THEN [ok |-> FALSE, text |-> <<>>]
        ELSE [ok |-> TRUE, text |-> s]

\* TodoCreate(text=text, done=done)
TodoCreate(text, done) ==
  LET r == validate_text(text)
  IN  [ok |-> r.ok, text |-> r.text, done |-> done]

\* a Todo built without its validator (as Todo.model_construct builds it)
Todo_Unvalidated(id, text, done) ==
  [ok |-> TRUE, value |-> [id |-> id, text |-> text, done |-> done]]

\* Todo(id=id, text=text, done=done): the validator of TodoCreate is inherited
Todo(id, text, done) ==
  LET r == validate_text(text)
  IN  [ok |-> r.ok, value |-> [id |-> id, text |-> r.text, done |-> done]]

\* a dump that leaves done out, so that a reader sees the default
model_dump_NoDone(t) == [text |-> t.text, done |-> FALSE, id |-> t.id]

\* t.model_dump(): the plain dict json.dump writes as one JSON object
model_dump(t) == [text |-> t.text, done |-> t.done, id |-> t.id]

\* Todo.model_validate(todo_data)
model_validate(data) == Todo(data.id, data.text, data.done)

(***************************************************************************)
(* src/persistence.py: the backing file.                                   *)
(***************************************************************************)
Absent == [kind |-> "absent", objs |-> <<>>]

\* a file whose text is not a JSON document: opened for writing and not (fully) written
Torn == [kind |-> "torn", objs |-> <<>>]

\* the file json.dump(serializable, f) leaves for a list of Todo
Dumped(snapshot) ==
  [kind |-> "json", objs |-> [i \in DOMAIN snapshot |-> model_dump(snapshot[i])]]

\* the loop of _read_all over the loaded array; a record that fails validation raises
RECURSIVE ReadObjs(_, _)
ReadObjs(objs, acc) ==
  IF objs = <<>>
    THEN [ok |-> TRUE, todos |-> acc]
    ELSE LET todo_data == Head(objs)
             todo_id == todo_data.id
             t == model_validate(todo_data)
         IN  IF ~t.ok
               THEN [ok |-> FALSE, todos |-> <<>>]
               ELSE ReadObjs(Tail(objs), DictSet(acc, todo_id, t.value))

\* TodoDao._read_all
ReadAll(f) ==
  IF f.kind = "absent"
    THEN [ok |-> TRUE, todos |-> <<>>]
    ELSE IF f.kind = "torn"
      THEN [ok |-> FALSE, todos |-> <<>>]
      ELSE ReadObjs(f.objs, <<>>)

\* TodoDao._write_all as one step: what the file is afterwards, by how the write went
WriteOutcomes == {"ok", "open_error", "dump_error"}

WriteAll(f, snapshot, outcome) ==
  CASE outcome = "ok" -> Dumped(snapshot)
    [] outcome = "open_error" -> f
    [] outcome = "dump_error" -> Torn

\* _next_id counting from 0 in an empty store
NextId_FromZero(d) == IF d = <<>> THEN 0 ELSE MaxKey(d) + 1

\* _next_id as the number of records plus one
NextId_Count(d) == Len(d) + 1

\* TodoDao._next_id
NextId(d) == IF d = <<>> THEN 1 ELSE MaxKey(d) + 1


(***************************************************************************)
(* The inputs.                                                             *)
(***************************************************************************)
\* the ids callers ask for
IdInputs == 0 .. MaxId

\* the JSON objects a backing file holds at start-up
FileObjects == [text : FileTexts, done : BOOLEAN, id : 0 .. MaxFileId]

\* the backing files a process can find at start-up
InitFiles ==
  {Absent, Torn} \cup
  { [kind |-> "json", objs |-> s] :
      s \in UNION { [1 .. n -> FileObjects] : n \in 0 .. MaxFileLen } }

Threads == {1, 2}

\* a thread outside any call, before its first call
Idle ==
  [pc |-> "idle", op |-> "none", id |-> 0, todo |-> <<>>, snapshot |-> <<>>,
   outcome |-> "none"]

Init ==
  /\ file \in InitFiles
  /\ todos = <<>>
  /\ status = "new"
  /\ ret = [op |-> "none", outcome |-> "ok", id |-> 0, value |-> <<>>]
  /\ maxAssigned = 0
  /\ saveRun = -1
  /\ failures = 0
  /\ lock = 0
  /\ threads = [t \in Threads |-> Idle]
  /\ calls = 0

Max(a, b) == IF a >= b THEN a ELSE b

(***************************************************************************)
(* The calls, each as one step (Spec).                                     *)
(***************************************************************************)
\* dao = TodoDao("todo_data.json") at process start: __init__ and _read_all
Initialize ==
  /\ status \in {"new", "ready"}
  /\ LET r == ReadAll(file)
     IN  /\ status' = IF r.ok THEN "ready" ELSE "failed"
         /\ todos' = r.todos
         /\ ret' = [op |-> "init",
                    outcome |-> IF r.ok THEN "ok" ELSE "MalformedStoreFile",
                    id |-> 0, value |-> <<>>]
         /\ saveRun' = IF r.ok /\ r.todos = <<>> THEN 0 ELSE -1
  /\ UNCHANGED <<file, maxAssigned, failures, conc>>

\* the tail of a mutating call without its self._write_all
Commit_NoWrite(d, op, id, value, outcome) ==
  /\ outcome # "ok" => failures < MaxWriteFailures
  /\ todos' = d
  /\ file' = file
  /\ failures' = IF outcome = "ok" THEN failures ELSE failures + 1
  /\ ret' = IF outcome = "ok"
              THEN [op |-> op, outcome |-> "ok", id |-> id, value |-> value]
              ELSE [op |-> op, outcome |-> "OSError", id |-> id, value |-> <<>>]

\* the tail of a mutating call that restores the mapping when its write fails
Commit_RollsBack(d, op, id, value, outcome) ==
  /\ outcome # "ok" => failures < MaxWriteFailures
  /\ todos' = IF outcome = "ok" THEN d ELSE todos
  /\ file' = WriteAll(file, Values(d), outcome)
  /\ failures' = IF outcome = "ok" THEN failures ELSE failures + 1
  /\ ret' = IF outcome = "ok"
              THEN [op |-> op, outcome |-> "ok", id |-> id, value |-> value]
              ELSE [op |-> op, outcome |-> "OSError", id |-> id, value |-> <<>>]

\* the tail of save, update and delete: self._write_all(list(self.todos.values()))
\* on the mapping d the call has made, and the return
Commit(d, op, id, value, outcome) ==
  /\ outcome # "ok" => failures < MaxWriteFailures
  /\ todos' = d
  /\ file' = WriteAll(file, Values(d), outcome)
  /\ failures' = IF outcome = "ok" THEN failures ELSE failures + 1
  /\ ret' = IF outcome = "ok"
              THEN [op |-> op, outcome |-> "ok", id |-> id, value |-> value]
              ELSE [op |-> op, outcome |-> "OSError", id |-> id, value |-> <<>>]

\* a call that raises before it changes anything
Raise(op, id, error) ==
  /\ ret' = [op |-> op, outcome |-> error, id |-> id, value |-> <<>>]
  /\ UNCHANGED <<todos, file, failures>>

\* dao.save(TodoCreate(text=text, done=done)); outcome: how its file write goes
Save(text, done, outcome) ==
  /\ status = "ready"
  /\ LET todo_create == TodoCreate(text, done)
     IN  IF ~todo_create.ok
           THEN /\ Raise("save", 0, "InvalidInput")
                /\ saveRun' = -1
                /\ UNCHANGED maxAssigned
           ELSE LET todo_id == NextId(todos)
                    todo == Todo(todo_id, todo_create.text, todo_create.done).value
                IN  /\ todo_id <= MaxId
                    /\ Commit(DictSet(todos, todo_id, todo), "save", todo_id,
                              <<todo>>, outcome)
                    /\ saveRun' = IF saveRun >= 0 /\ outcome = "ok"
                                     THEN saveRun + 1 ELSE -1
                    /\ maxAssigned' = Max(maxAssigned, todo_id)
  /\ UNCHANGED <<status, conc>>

\* update without the check of lines 101-102: a missing id is inserted
Update_Upsert(id, text, done, outcome) ==
  /\ status = "ready"
  /\ LET t == Todo(id, text, done)
         todo == t.value
         todo_id == todo.id
     IN  IF ~t.ok
           THEN Raise("update", id, "InvalidInput")
           ELSE Commit(DictSet(todos, todo_id, todo), "update", todo_id,
                       <<todo>>, outcome)
  /\ saveRun' = -1
  /\ UNCHANGED <<status, maxAssigned, conc>>

\* update that stores the record under a fresh id instead of its own
Update_Rekeys(id, text, done, outcome) ==
  /\ status = "ready"
  /\ LET t == Todo(id, text, done)
         todo == t.value
         todo_id == todo.id
     IN  IF ~t.ok
           THEN Raise("update", id, "InvalidInput")
           ELSE IF ~DictHas(todos, todo_id)
             THEN Raise("update", id, "NotFound")
             ELSE Commit(DictSet(DictDel(todos, todo_id), NextId(todos), todo),
                         "update", todo_id, <<todo>>, outcome)
  /\ saveRun' = -1
  /\ UNCHANGED <<status, maxAssigned, conc>>

\* update that merges: the text is replaced, the stored done is kept
Update_TextOnly(id, text, done, outcome) ==
  /\ status = "ready"
  /\ LET t == Todo(id, text, done)
         todo_id == t.value.id
     IN  IF ~t.ok
           THEN Raise("update", id, "InvalidInput")
           ELSE IF ~DictHas(todos, todo_id)
             THEN Raise("update", id, "NotFound")
             ELSE LET todo == [t.value EXCEPT !.done = DictGet(todos, todo_id).done]
                  IN  Commit(DictSet(todos, todo_id, todo), "update", todo_id,
                             <<todo>>, outcome)
  /\ saveRun' = -1
  /\ UNCHANGED <<status, maxAssigned, conc>>

\* dao.update(Todo(id=id, text=text, done=done))
Update(id, text, done, outcome) ==
  /\ status = "ready"
  /\ LET t == Todo(id, text, done)
         todo == t.value
         todo_id == todo.id
     IN  IF ~t.ok
           THEN Raise("update", id, "InvalidInput")
           ELSE IF ~DictHas(todos, todo_id)
             THEN Raise("update", id, "NotFound")
             ELSE Commit(DictSet(todos, todo_id, todo), "update", todo_id,
                         <<todo>>, outcome)
  /\ saveRun' = -1
  /\ UNCHANGED <<status, maxAssigned, conc>>

\* delete without the check of lines 109-110: a missing id is ignored
Delete_Silent(todo_id, outcome) ==
  /\ status = "ready"
  /\ Commit(IF DictHas(todos, todo_id) THEN DictDel(todos, todo_id) ELSE todos,
            "delete", todo_id, <<>>, outcome)
  /\ saveRun' = -1
  /\ UNCHANGED <<status, maxAssigned, conc>>

\* delete that empties the mapping (self.todos.clear() for del self.todos[todo_id])
Delete_Clears(todo_id, outcome) ==
  /\ status = "ready"
  /\ IF ~DictHas(todos, todo_id)
       THEN Raise("delete", todo_id, "NotFound")
       ELSE Commit(<<>>, "delete", todo_id, <<>>, outcome)
  /\ saveRun' = -1
  /\ UNCHANGED <<status, maxAssigned, conc>>

\* dao.delete(todo_id)
Delete(todo_id, outcome) ==
  /\ status = "ready"
  /\ IF ~DictHas(todos, todo_id)
       THEN Raise("delete", todo_id, "NotFound")
       ELSE Commit(DictDel(todos, todo_id), "delete", todo_id, <<>>, outcome)
  /\ saveRun' = -1
  /\ UNCHANGED <<status, maxAssigned, conc>>

\* get that takes the record out (self.todos.pop(todo_id, None))
Get_Pops(todo_id) ==
  /\ status = "ready"
  /\ ret' = [op |-> "get", outcome |-> "ok", id |-> todo_id,
             value |-> IF DictHas(todos, todo_id)
                         THEN <<DictGet(todos, todo_id)>> ELSE <<>>]
  /\ todos' = IF DictHas(todos, todo_id) THEN DictDel(todos, todo_id) ELSE todos
  /\ UNCHANGED <<file, status, hist, conc>>

\* dao.get(todo_id): the Todo, or None (no value)
Get(todo_id) ==
  /\ status = "ready"
  /\ ret' = [op |-> "get", outcome |-> "ok", id |-> todo_id,
             value |-> IF DictHas(todos, todo_id)
                         THEN <<DictGet(todos, todo_id)>> ELSE <<>>]
  /\ UNCHANGED <<todos, file, status, hist, conc>>

\* dao.get_all()
GetAll ==
  /\ status = "ready"
  /\ ret' = [op |-> "get_all", outcome |-> "ok", id |-> 0, value |-> Values(todos)]
  /\ UNCHANGED <<todos, file, status, hist, conc>>

(***************************************************************************)
(* src/main.py: the handlers of PUT and DELETE /todos/{todo_id}.  ret holds *)
(* the status code of a response that is an error.                         *)
(***************************************************************************)
\* PUT without the look-up of lines 59-61: the ValueError of dao.update surfaces as 500
update_todo_NoCheck(todo_id, text, done, outcome) ==
  LET todo == TodoCreate(text, done)
  IN  IF ~todo.ok
        THEN /\ status = "ready"
             /\ Raise("PUT", todo_id, "422")
             /\ saveRun' = -1
             /\ UNCHANGED <<status, maxAssigned, conc>>
        ELSE IF ~DictHas(todos, todo_id)
          THEN /\ status = "ready"
               /\ Raise("PUT", todo_id, "500")
               /\ saveRun' = -1
               /\ UNCHANGED <<status, maxAssigned, conc>>
          ELSE Update(todo_id, todo.text, todo.done, outcome)

\* update_todo(todo_id, todo): the body is parsed into a TodoCreate before the
\* handler runs (422 when that fails); the handler answers 404 when dao.get finds
\* nothing, else returns dao.update(Todo(id=todo_id, text=todo.text, done=todo.done))
update_todo(todo_id, text, done, outcome) ==
  LET todo == TodoCreate(text, done)
  IN  IF ~todo.ok
        THEN /\ status = "ready"
             /\ Raise("PUT", todo_id, "422")
             /\ saveRun' = -1
             /\ UNCHANGED <<status, maxAssigned, conc>>
        ELSE IF ~DictHas(todos, todo_id)
          THEN /\ status = "ready"
               /\ Raise("PUT", todo_id, "404")
               /\ saveRun' = -1
               /\ UNCHANGED <<status, maxAssigned, conc>>
          ELSE Update(todo_id, todo.text, todo.done, outcome)

\* DELETE that delegates to dao.delete
delete_todo_Delegates(todo_id) == Delete(todo_id, "ok")

\* delete_todo(todo_id): raise HTTPException(status_code=500)
delete_todo(todo_id) ==
  /\ status = "ready"
  /\ Raise("DELETE", todo_id, "500")
  /\ UNCHANGED <<status, maxAssigned, saveRun, conc>>

\* the calls of one caller, every file write succeeding
Next ==
  \/ Initialize
  \/ \E text \in TextInputs, done \in BOOLEAN : Save(text, done, "ok")
  \/ \E id \in IdInputs, text \in TextInputs, done \in BOOLEAN :
       Update(id, text, done, "ok")
  \/ \E id \in IdInputs : Delete(id, "ok")
  \/ \E id \in IdInputs : Get(id)
  \/ GetAll

Spec == Init /\ [][Next]_vars

\* the requests of the web application that write: the module creates its dao
\* (line 10), POST saves, PUT updates, DELETE is refused
WebNext ==
  \/ Initialize
  \/ \E text \in TextInputs, done \in BOOLEAN : Save(text, done, "ok")
  \/ \E id \in IdInputs, text \in TextInputs, done \in BOOLEAN :
       update_todo(id, text, done, "ok")
  \/ \E id \in IdInputs : delete_todo(id)

WebSpec == Init /\ [][WebNext]_vars

\* the calls of one caller on a store that starts with no file, file writes failing
\* or not
FaultInit == Init /\ file = Absent

\* the text the calls of FaultSpec send: "  ab  "
FaultTexts == { <<" ", " ", "a", "b", " ", " ">> }

FaultNext ==
  \/ Initialize
  \/ \E text \in FaultTexts, done \in BOOLEAN, outcome \in WriteOutcomes :
       Save(text, done, outcome)
  \/ \E id \in IdInputs, text \in FaultTexts, done \in BOOLEAN,
        outcome \in WriteOutcomes : Update(id, text, done, outcome)
  \/ \E id \in IdInputs, outcome \in WriteOutcomes : Delete(id, outcome)
  \/ \E id \in IdInputs : Get(id)
  \/ GetAll

FaultSpec == FaultInit /\ [][FaultNext]_vars


(***************************************************************************)
(* The calls of several threads on one store (ConcSpec): one step per      *)
(* statement between which another thread can run.                         *)
(***************************************************************************)
\* the thread that constructs the store
Main == 1

\* the store starts with no file, a file that is no JSON document, or a file
\* holding one record
ConcFiles ==
  { Absent, Torn,
    [kind |-> "json", objs |-> <<[text |-> <<" ", "a", "b">>, done |-> FALSE, id |-> 1]>>] }

\* what the threads send: save(text), update(id, text, done=True), delete(id)
ConcTexts == { <<"c", "d">> }
ConcIds == {1, 2}

ConcInit == Init /\ file \in ConcFiles

Goto(t, label) == threads' = [threads EXCEPT ![t].pc = label]

\* the call of thread t ends: it returns, or raises error
Return(t, outcome) ==
  threads' = [threads EXCEPT ![t].pc = "idle", ![t].outcome = outcome]

\* thread t enters a call
Call(t, op, label, id, todo) ==
  /\ status = "ready"
  /\ threads[t].pc = "idle"
  /\ calls < MaxCalls
  /\ calls' = calls + 1
  /\ threads' = [threads EXCEPT ![t] =
       [pc |-> label, op |-> op, id |-> id, todo |-> todo, snapshot |-> <<>>,
        outcome |-> "none"]]

\* _read_all, line 39: os.path.exists(self.filename), before the lock is taken
ReadExists(t) ==
  /\ t = Main
  /\ status = "new"
  /\ threads[t].pc = "idle"
  /\ IF file.kind = "absent"
       THEN /\ todos' = <<>>
            /\ status' = "ready"
            /\ UNCHANGED threads
       ELSE /\ Goto(t, "r_lock")
            /\ UNCHANGED <<todos, status>>
  /\ UNCHANGED <<file, ret, hist, lock, calls>>

\* entering the with block without waiting for the lock
Acquire_NoWait(t) ==
  /\ threads[t].pc \in {"r_lock", "w_lock"}
  /\ lock' = t
  /\ Goto(t, IF threads[t].pc = "r_lock" THEN "r_read" ELSE "w_open")
  /\ UNCHANGED <<file, todos, status, ret, hist, calls>>

\* with self.lock: (lines 44 and 57)
Acquire(t) ==
  /\ threads[t].pc \in {"r_lock", "w_lock"}
  /\ lock = 0
  /\ lock' = t
  /\ Goto(t, IF threads[t].pc = "r_lock" THEN "r_read" ELSE "w_open")
  /\ UNCHANGED <<file, todos, status, ret, hist, calls>>

\* _read_all, lines 45-52: open, json.load and the loop, under the lock
ReadFile(t) ==
  /\ threads[t].pc = "r_read"
  /\ LET r == ReadAll(file)
     IN  /\ todos' = r.todos
         /\ threads' = [threads EXCEPT ![t].pc = "r_unlock",
                          ![t].outcome = IF r.ok THEN "ok" ELSE "MalformedStoreFile"]
  /\ UNCHANGED <<file, status, ret, hist, lock, calls>>

\* leaving the with block of _read_all: the lock is released, __init__ returns or raises
ReadRelease(t) ==
  /\ threads[t].pc = "r_unlock"
  /\ lock' = 0
  /\ status' = IF threads[t].outcome = "ok" THEN "ready" ELSE "failed"
  /\ Goto(t, "idle")
  /\ UNCHANGED <<file, todos, ret, hist, calls>>

\* a caller builds TodoCreate(text=text, done=done) and calls dao.save
CallSave(t, text, done) ==
  /\ TodoCreate(text, done).ok
  /\ Call(t, "save", "next_id", 0, <<[id |-> 0, text |-> TodoCreate(text, done).text,
                                      done |-> done]>>)
  /\ UNCHANGED <<file, todos, status, ret, hist, lock>>

\* _next_id, line 68: if not self.todos: return 1
NextIdEmpty(t) ==
  /\ threads[t].pc = "next_id"
  /\ IF todos = <<>>
       THEN threads' = [threads EXCEPT ![t].pc = "save_put", ![t].id = 1]
       ELSE Goto(t, "next_id_max")
  /\ UNCHANGED <<file, todos, status, ret, hist, lock, calls>>

\* _next_id, line 71: max(self.todos.keys()) + 1; max of no keys raises ValueError
NextIdMax(t) ==
  /\ threads[t].pc = "next_id_max"
  /\ IF todos = <<>>
       THEN Return(t, "ValueError")
       ELSE threads' = [threads EXCEPT ![t].pc = "save_put", ![t].id = MaxKey(todos) + 1]
  /\ UNCHANGED <<file, todos, status, ret, hist, lock, calls>>

\* save, lines 92-93: todo = Todo(id=todo_id, ...); self.todos[todo_id] = todo
SavePut(t) ==
  /\ threads[t].pc = "save_put"
  /\ LET todo_id == threads[t].id
         todo_create == threads[t].todo[1]
         todo == Todo(todo_id, todo_create.text, todo_create.done).value
     IN  /\ todos' = DictSet(todos, todo_id, todo)
         /\ threads' = [threads EXCEPT ![t].pc = "list", ![t].todo = <<todo>>]
         /\ maxAssigned' = Max(maxAssigned, todo_id)
  /\ UNCHANGED <<file, status, ret, saveRun, failures, lock, calls>>

\* a caller builds Todo(id=id, text=text, done=done) and calls dao.update
CallUpdate(t, id, text, done) ==
  /\ Todo(id, text, done).ok
  /\ Call(t, "update", "update_check", id, <<Todo(id, text, done).value>>)
  /\ UNCHANGED <<file, todos, status, ret, hist, lock>>

\* update, lines 100-102
UpdateCheck(t) ==
  /\ threads[t].pc = "update_check"
  /\ IF ~DictHas(todos, threads[t].todo[1].id)
       THEN Return(t, "NotFound")
       ELSE Goto(t, "update_put")
  /\ UNCHANGED <<file, todos, status, ret, hist, lock, calls>>

\* update, line 103: self.todos[todo_id] = todo
UpdatePut(t) ==
  /\ threads[t].pc = "update_put"
  /\ todos' = DictSet(todos, threads[t].todo[1].id, threads[t].todo[1])
  /\ Goto(t, "list")
  /\ UNCHANGED <<file, status, ret, hist, lock, calls>>

\* a caller calls dao.delete(todo_id)
CallDelete(t, todo_id) ==
  /\ Call(t, "delete", "delete_check", todo_id, <<>>)
  /\ UNCHANGED <<file, todos, status, ret, hist, lock>>

\* delete, lines 109-110
DeleteCheck(t) ==
  /\ threads[t].pc = "delete_check"
  /\ IF ~DictHas(todos, threads[t].id)
       THEN Return(t, "NotFound")
       ELSE Goto(t, "delete_del")
  /\ UNCHANGED <<file, todos, status, ret, hist, lock, calls>>

\* delete, line 111: del self.todos[todo_id]; a key that is gone raises KeyError
DeleteDel(t) ==
  /\ threads[t].pc = "delete_del"
  /\ IF ~DictHas(todos, threads[t].id)
       THEN /\ Return(t, "KeyError")
            /\ UNCHANGED todos
       ELSE /\ todos' = DictDel(todos, threads[t].id)
            /\ Goto(t, "list")
  /\ UNCHANGED <<file, status, ret, hist, lock, calls>>

\* lines 95, 104, 112: the argument list(self.todos.values()) of self._write_all
ListValues(t) ==
  /\ threads[t].pc = "list"
  /\ threads' = [threads EXCEPT ![t].pc = "w_lock", ![t].snapshot = Values(todos)]
  /\ UNCHANGED <<file, todos, status, ret, hist, lock, calls>>

\* _write_all, line 58: open(self.filename, "w") empties the file, or raises
WriteOpen(t, outcome) ==
  /\ threads[t].pc = "w_open"
  /\ IF outcome = "open_error"
       THEN /\ failures < MaxWriteFailures
            /\ failures' = failures + 1
            /\ threads' = [threads EXCEPT ![t].pc = "w_unlock", ![t].outcome = "OSError"]
            /\ UNCHANGED file
       ELSE /\ file' = Torn
            /\ Goto(t, "w_dump")
            /\ UNCHANGED failures
  /\ UNCHANGED <<todos, status, ret, maxAssigned, saveRun, lock, calls>>

\* _write_all, lines 60-61: json.dump writes the list, or raises part-way
WriteDump(t, outcome) ==
  /\ threads[t].pc = "w_dump"
  /\ IF outcome = "dump_error"
       THEN /\ failures < MaxWriteFailures
            /\ failures' = failures + 1
            /\ threads' = [threads EXCEPT ![t].pc = "w_unlock", ![t].outcome = "OSError"]
            /\ UNCHANGED file
       ELSE /\ file' = Dumped(threads[t].snapshot)
            /\ threads' = [threads EXCEPT ![t].pc = "w_unlock", ![t].outcome = "ok"]
            /\ UNCHANGED failures
  /\ UNCHANGED <<todos, status, ret, maxAssigned, saveRun, lock, calls>>

\* a lock taken with acquire() and released only when the write went through
WriteRelease_LeakOnError(t) ==
  /\ threads[t].pc = "w_unlock"
  /\ lock' = IF threads[t].outcome = "OSError" THEN lock ELSE 0
  /\ Goto(t, "idle")
  /\ UNCHANGED <<file, todos, status, ret, hist, calls>>

\* leaving the with block of _write_all: the lock is released and the call ends
WriteRelease(t) ==
  /\ threads[t].pc = "w_unlock"
  /\ lock' = 0
  /\ Goto(t, "idle")
  /\ UNCHANGED <<file, todos, status, ret, hist, calls>>

\* a caller calls dao.get(todo_id)
CallGet(t, todo_id) ==
  /\ Call(t, "get", "get_read", todo_id, <<>>)
  /\ UNCHANGED <<file, todos, status, ret, hist, lock>>

\* get, line 78: return self.todos.get(todo_id, None)
GetRead(t) ==
  /\ threads[t].pc = "get_read"
  /\ threads' = [threads EXCEPT ![t].pc = "idle", ![t].outcome = "ok",
                   ![t].todo = IF DictHas(todos, threads[t].id)
                                 THEN <<DictGet(todos, threads[t].id)>> ELSE <<>>]
  /\ UNCHANGED <<file, todos, status, ret, hist, lock, calls>>

\* a caller calls dao.get_all()
CallGetAll(t) ==
  /\ Call(t, "get_all", "get_all_read", 0, <<>>)
  /\ UNCHANGED <<file, todos, status, ret, hist, lock>>

\* get_all, line 82: return list(self.todos.values())
GetAllRead(t) ==
  /\ threads[t].pc = "get_all_read"
  /\ threads' = [threads EXCEPT ![t].pc = "idle", ![t].outcome = "ok",
                   ![t].snapshot = Values(todos)]
  /\ UNCHANGED <<file, todos, status, ret, hist, lock, calls>>

\* the steps of thread t inside a call (and inside the constructor)
Progress(t) ==
  \/ ReadExists(t)
  \/ Acquire(t)
  \/ ReadFile(t)
  \/ ReadRelease(t)
  \/ NextIdEmpty(t)
  \/ NextIdMax(t)
  \/ SavePut(t)
  \/ UpdateCheck(t)
  \/ UpdatePut(t)
  \/ DeleteCheck(t)
  \/ DeleteDel(t)
  \/ ListValues(t)
  \/ \E outcome \in {"ok", "open_error"} : WriteOpen(t, outcome)
  \/ \E outcome \in {"ok", "dump_error"} : WriteDump(t, outcome)
  \/ WriteRelease(t)
  \/ GetRead(t)
  \/ GetAllRead(t)

\* thread t enters a call
Enter(t) ==
  \/ \E text \in ConcTexts : CallSave(t, text, FALSE)
  \/ \E id \in ConcIds, text \in ConcTexts : CallUpdate(t, id, text, TRUE)
  \/ \E id \in ConcIds : CallDelete(t, id)
  \/ \E id \in ConcIds : CallGet(t, id)
  \/ CallGetAll(t)

Step(t) == Progress(t) \/ Enter(t)

ConcNext == \E t \in Threads : Step(t)

ConcSpec == ConcInit /\ [][ConcNext]_vars

\* the same threads, starting fewer calls
FairNext == \E t \in Threads : Progress(t) \/ (calls < MaxFairCalls /\ Enter(t))

\* the scheduler lets every thread that can take a step inside a call take it
FairSpec ==
  ConcInit /\ [][FairNext]_vars /\ \A t \in Threads : WF_vars(Progress(t))


(***************************************************************************)
(* The properties.                                                         *)
(***************************************************************************)
Mutators == {"save", "update", "delete"}

\* the call that returned last was a mutating call that succeeded
MutatedOk == ret.op \in Mutators /\ ret.outcome = "ok"

\* the ids of a list of Todo
IdsOf(list) == { list[i].id : i \in DOMAIN list }

\* the records of the mapping and of the file, as (id, text, done)
StoreRecords ==
  { [id |-> todos[i].key, text |-> todos[i].todo.text, done |-> todos[i].todo.done] :
      i \in DOMAIN todos }

FileRecordsOf(f) ==
  { [id |-> f.objs[i].id, text |-> f.objs[i].text, done |-> f.objs[i].done] :
      i \in DOMAIN f.objs }

\* the file holds exactly the records of the mapping, each once
FileIsStore ==
  /\ file.kind = "json"
  /\ Len(file.objs) = Len(todos)
  /\ FileRecordsOf(file) = StoreRecords

\* C1: from an empty store, after N successful saves and no other mutating call,
\* the N-th save returned id N, the ids held are 1..N and get_all returns them.
C1_SaveIdsInCallOrder ==
  saveRun >= 0 =>
    /\ Keys(todos) = 1 .. saveRun
    /\ ret.op = "save" =>
         ret.outcome = "ok" /\ ret.id = saveRun /\ ret.value[1].id = saveRun
    /\ ret.op = "get_all" => IdsOf(ret.value) = 1 .. saveRun

C1_Witness == saveRun = MaxId /\ ret.op = "get_all"

\* C2 as claimed: every id a save returns is greater than every id any save
\* assigned before, also when the record that held the greatest id was deleted.
C2_NeverReused ==
  [][(ret'.op = "save" /\ ret'.outcome = "ok") => ret'.id > maxAssigned]_vars

\* C2 amended: every id a save returns is greater than every id the store holds
\* when save is called (and is 1 when it holds none).
C2_AboveHeldIds ==
  [][(ret'.op = "save" /\ ret'.outcome = "ok") =>
       /\ \A k \in Keys(todos) : ret'.id > k
       /\ todos = <<>> => ret'.id = 1]_vars

\* a save returned an id below one a save had assigned before: the id was free again
C2_Witness == ret.op = "save" /\ ret.outcome = "ok" /\ ret.id < maxAssigned

\* C3: at the end of every successful save, update or delete the backing file
\* holds exactly the records of the in-memory mapping.
C3_FileIsStoreAfterMutation == MutatedOk => FileIsStore

\* a successful update after a write that failed
C3_Witness ==
  /\ ret.op = "update" /\ ret.outcome = "ok"
  /\ failures > 0
  /\ Len(todos) >= 2

\* C4: update of an id the mapping does not hold fails with NotFound and leaves
\* the mapping and the file as they were.
C4_UpdateMissing ==
  [][(ret'.op = "update" /\ ret'.outcome # "InvalidInput" /\ ~DictHas(todos, ret'.id)) =>
       (ret'.outcome = "NotFound" /\ todos' = todos /\ file' = file)]_vars

\* the file still holds the unstripped text it was loaded with
C4_Witness ==
  /\ ret.op = "update" /\ ret.outcome = "NotFound"
  /\ todos # <<>>
  /\ ~FileIsStore

\* C5: delete of an id the mapping does not hold fails with NotFound and leaves
\* the mapping and the file as they were.
C5_DeleteMissing ==
  [][(ret'.op = "delete" /\ ~DictHas(todos, ret'.id)) =>
       (ret'.outcome = "NotFound" /\ todos' = todos /\ file' = file)]_vars

C5_Witness ==
  /\ ret.op = "delete" /\ ret.outcome = "NotFound"
  /\ todos # <<>>
  /\ ~FileIsStore


\* C6 as claimed: in every state of a store that is ready, the ids are unique and
\* at least 1.
C6_IdsUniqueAtLeastOne ==
  status = "ready" =>
    \A i \in DOMAIN todos :
      /\ todos[i].key >= 1
      /\ todos[i].todo.id >= 1
      /\ \A j \in DOMAIN todos : todos[j].key = todos[i].key => j = i

\* the mapping a new store reads from the file that holds the records of d
RoundTrip(d) == ReadAll(WriteAll(file, Values(d), "ok"))

\* the same ids, and under each id the same Todo (id, text, done)
SameMapping(d1, d2) ==
  /\ Keys(d1) = Keys(d2)
  /\ \A k \in Keys(d1) : DictGet(d1, k) = DictGet(d2, k)

\* C9: writing the records of a mapping the store can hold and reading the file
\* into a new store gives the same mapping; so does a process start right after
\* a successful save, update or delete.
C9_RoundTrip ==
  /\ [](status = "ready" =>
          RoundTrip(todos).ok /\ SameMapping(RoundTrip(todos).todos, todos))
  /\ [][(ret'.op = "init" /\ MutatedOk) =>
          (ret'.outcome = "ok" /\ SameMapping(todos', todos))]_vars

\* a store started from the file a mutating call wrote: two records, one done
C9_Witness ==
  /\ ret.op = "init" /\ ret.outcome = "ok"
  /\ FileIsStore
  /\ Len(todos) = 2
  /\ \E i \in DOMAIN todos : todos[i].todo.done

\* the dict keys in order
KeySeq(d) == [i \in DOMAIN d |-> d[i].key]

\* C10: every record is stored under the id it carries, and a save, update or
\* delete leaves every record under its id, unless it is the record deleted;
\* an update changes no key, and no call changes a record other than its target.
C10_IdNeverChanges ==
  /\ [](\A i \in DOMAIN todos : todos[i].todo.id = todos[i].key)
  /\ [][ret'.op \in Mutators =>
          /\ \A k \in Keys(todos) :
               \/ ret'.op = "delete" /\ ret'.outcome = "ok" /\ k = ret'.id
               \/ /\ DictHas(todos', k)
                  /\ DictGet(todos', k).id = k
                  /\ k # ret'.id => DictGet(todos', k) = DictGet(todos, k)
          /\ ret'.op = "update" => KeySeq(todos') = KeySeq(todos)]_vars

\* an update of one of two records has succeeded
C10_Witness ==
  /\ ret.op = "update" /\ ret.outcome = "ok"
  /\ Len(todos) = 2
  /\ DictGet(todos, ret.id) = ret.value[1]
  /\ ret.value[1].done

\* thread t is inside the with self.lock block of _read_all or _write_all
InsideLock(t) == threads[t].pc \in {"r_read", "r_unlock", "w_open", "w_dump", "w_unlock"}

\* C7: a thread that reads or writes the file holds the lock, and at most one
\* thread at a time is inside a file read or a file write.
C7_FileAccessUnderLock ==
  /\ \A t \in Threads : InsideLock(t) => lock = t
  /\ Cardinality({ t \in Threads : InsideLock(t) }) <= 1

\* one thread is writing the file while another waits for the lock
C7_Witness ==
  \E t, u \in Threads : threads[t].pc = "w_dump" /\ threads[u].pc = "w_lock"

\* no thread is inside a call
Quiescent == \A t \in Threads : threads[t].pc = "idle"

\* C8 as claimed: once all concurrent calls have returned, no write having failed,
\* the backing file holds exactly the in-memory mapping.
C8_NoLostUpdate ==
  ( /\ Quiescent
    /\ failures = 0
    /\ \E t \in Threads : threads[t].op \in Mutators /\ threads[t].outcome = "ok" )
  => FileIsStore


\* s is v without its leading and trailing whitespace
IsStripped(v, s) ==
  \E i \in 1 .. Len(v) + 1, j \in 0 .. Len(v) :
    /\ s = SubSeq(v, i, j)
    /\ \A k \in 1 .. Len(v) : (k < i \/ k > j) => v[k] \in Whitespace
    /\ s # <<>> => s[1] \notin Whitespace /\ s[Len(s)] \notin Whitespace

\* C11: a save whose text is shorter than 2 after stripping fails with InvalidInput
\* and leaves mapping and file as they were; any other save stores and returns the
\* stripped text ("a" fails, "  ab  " is stored as "ab").
C11_SaveValidatesText ==
  [][\A text \in TextInputs, done \in BOOLEAN :
       (ret'.op = "save" /\ Save(text, done, "ok")) =>
         \A s \in TextInputs \cup {<<"a", "b">>} :
           IsStripped(text, s) =>
             IF Len(s) < 2
               THEN ret'.outcome = "InvalidInput" /\ todos' = todos /\ file' = file
               ELSE /\ ret'.outcome = "ok"
                    /\ ret'.value[1].text = s
                    /\ DictGet(todos', ret'.id) = [id |-> ret'.id, text |-> s, done |-> done]]_vars

\* "  ab  " has been saved as "ab", and a later save of "a" was refused
C11_Witness ==
  /\ ret.op = "save" /\ ret.outcome = "InvalidInput"
  /\ \E i \in DOMAIN todos :
       todos[i].key = maxAssigned /\ todos[i].todo.text = <<"a", "b">>


\* C12: under fair scheduling every call a thread is in ends (it returns or raises),
\* the lock is free whenever no thread is inside a call, and a held lock is
\* released, also after a file read or write that failed.
C12_CallsEnd ==
  /\ \A t \in Threads : (threads[t].pc # "idle") ~> (threads[t].pc = "idle")
  /\ [](Quiescent => lock = 0)
  /\ \A t \in Threads : (lock = t) ~> (lock = 0)

\* a thread writes the file under the lock after an earlier write failed
C12_Witness ==
  /\ failures > 0
  /\ \E t \in Threads :
       /\ threads[t].pc = "w_dump"
       /\ lock = t
       /\ \E u \in Threads : threads[u].outcome = "OSError" /\ threads[u].pc # "w_unlock"


\* C13: PUT /todos/{id} with a valid body answers 404 and leaves mapping and file
\* as they were when the store holds no record under the path id; otherwise the
\* record under the path id becomes (path id, body text, body done), no id is
\* added or removed, and that record is returned.
C13_PutByPathId ==
  [][\A id \in IdInputs, text \in TextInputs, done \in BOOLEAN :
       (ret'.op \in {"PUT", "update"} /\ id = ret'.id /\ update_todo(id, text, done, "ok")) =>
         \A s \in TextInputs \cup {<<"a", "b">>} :
           (IsStripped(text, s) /\ Len(s) >= 2) =>
             IF ~DictHas(todos, id)
               THEN /\ ret'.op = "PUT" /\ ret'.outcome = "404"
                    /\ todos' = todos /\ file' = file
               ELSE /\ ret'.outcome = "ok"
                    /\ ret'.value = <<[id |-> id, text |-> s, done |-> done]>>
                    /\ DictGet(todos', id) = ret'.value[1]
                    /\ KeySeq(todos') = KeySeq(todos)]_vars

\* a PUT for an id the store does not hold, the store holding another record
C13_Witness ==
  /\ ret.op = "PUT" /\ ret.outcome = "404"
  /\ todos # <<>>
  /\ ~DictHas(todos, ret.id)

C15_ReadsHaveNoEffect ==
  [][/\ \A id \in IdInputs :
          (ret'.op = "get" /\ id = ret'.id /\ Get(id)) =>
            /\ ret'.outcome = "ok"
            /\ \A i \in DOMAIN todos : todos[i].key = id => ret'.value = <<todos[i].todo>>
            /\ (\A i \in DOMAIN todos : todos[i].key # id) => ret'.value = <<>>
            /\ todos' = todos /\ file' = file
     /\ (ret'.op = "get_all" /\ GetAll) => (todos' = todos /\ file' = file)]_vars

\* a get for an id the store does not hold, the store holding another record
C15_Witness ==
  /\ ret.op = "get" /\ ret.outcome = "ok" /\ ret.value = <<>>
  /\ todos # <<>>
  /\ FileIsStore

\* the records of d stored under another id than id, in the order of d
Others(d, id) == SelectSeq(d, LAMBDA e : e.key # id)

\* C16: an update of an id the store holds, with a valid text, succeeds; the
\* record under that id is then exactly (id, stripped text, done), every other
\* record is as it was, and the ids held are the same.
C16_UpdateReplacesOne ==
  [][\A id \in IdInputs, text \in TextInputs, done \in BOOLEAN :
       (ret'.op = "update" /\ id = ret'.id /\ Update(id, text, done, "ok")
          /\ DictHas(todos, id)) =>
         \A s \in TextInputs \cup {<<"a", "b">>} :
           (IsStripped(text, s) /\ Len(s) >= 2) =>
             /\ ret'.outcome = "ok"
             /\ \E i \in DOMAIN todos' :
                  /\ todos'[i] = [key |-> id, todo |-> [id |-> id, text |-> s, done |-> done]]
                  /\ \A j \in DOMAIN todos' : todos'[j].key = id => j = i
             /\ Others(todos', id) = Others(todos, id)
             /\ IdsOf(Values(todos')) = IdsOf(Values(todos))]_vars

\* an update of one of two records has changed both its text and its done
C16_Witness ==
  /\ ret.op = "update" /\ ret.outcome = "ok"
  /\ Len(todos) >= 2
  /\ ret.value[1].done
  /\ DictGet(todos, ret.id) = ret.value[1]
  /\ \E i \in DOMAIN todos : todos[i].key # ret.id /\ ~todos[i].todo.done

\* C17: a successful delete(id) leaves no record under id and every other record
\* as it was; right after it get(id) returns no value and delete(id) fails with
\* NotFound.
C17_DeleteRemovesOne ==
  /\ []((ret.op = "delete" /\ ret.outcome = "ok") =>
          \A i \in DOMAIN todos : todos[i].key # ret.id)
  /\ [][\A id \in IdInputs :
          /\ (ret'.op = "delete" /\ ret'.outcome = "ok" /\ id = ret'.id /\ Delete(id, "ok")) =>
               todos' = Others(todos, id)
          /\ (ret.op = "delete" /\ ret.outcome = "ok" /\ id = ret.id /\ Get(id)) =>
               ret'.value = <<>>
          /\ (ret.op = "delete" /\ ret.outcome = "ok" /\ id = ret.id /\ Delete(id, "ok")) =>
               (ret'.outcome = "NotFound" /\ todos' = todos /\ file' = file)]_vars

\* one of two records has been deleted, the other is still held
C17_Witness ==
  /\ ret.op = "delete" /\ ret.outcome = "ok"
  /\ todos # <<>>
  /\ ret.id <= MaxKey(todos)

FileMatches(f, d) == ReadAll(f).ok /\ SameMapping(ReadAll(f).todos, d)

\* a save, update or delete whose file write fails raises, and the mapping holds
\* what the call did to it: the new record, the given fields, or one record less
KeepsMutation ==
  /\ \A text \in FaultTexts, done \in BOOLEAN, outcome \in WriteOutcomes \ {"ok"} :
       (ret'.op = "save" /\ Save(text, done, outcome)) =>
         /\ ret'.outcome = "OSError"
         /\ ~DictHas(todos, ret'.id)
         /\ Others(todos', ret'.id) = todos
         /\ DictHas(todos', ret'.id)
         /\ \E s \in TextInputs \cup {<<"a", "b">>} :
              /\ IsStripped(text, s)
              /\ DictGet(todos', ret'.id) = [id |-> ret'.id, text |-> s, done |-> done]
  /\ \A id \in IdInputs, text \in FaultTexts, done \in BOOLEAN,
        outcome \in WriteOutcomes \ {"ok"} :
       (ret'.op = "update" /\ id = ret'.id /\ DictHas(todos, id)
          /\ Update(id, text, done, outcome)) =>
         /\ ret'.outcome = "OSError"
         /\ Others(todos', id) = Others(todos, id)
         /\ \E s \in TextInputs \cup {<<"a", "b">>} :
              /\ IsStripped(text, s)
              /\ DictGet(todos', id) = [id |-> id, text |-> s, done |-> done]
  /\ \A id \in IdInputs, outcome \in WriteOutcomes \ {"ok"} :
       (ret'.op = "delete" /\ id = ret'.id /\ DictHas(todos, id) /\ Delete(id, outcome)) =>
         /\ ret'.outcome = "OSError"
         /\ todos' = Others(todos, id)

\* right after a call whose write failed, get and get_all return from the mapping
\* that holds the mutation
ReadsAfterFailure ==
  ret.outcome = "OSError" =>
    /\ \A id \in IdInputs :
         Get(id) =>
           /\ \A i \in DOMAIN todos : todos[i].key = id => ret'.value = <<todos[i].todo>>
           /\ (\A i \in DOMAIN todos : todos[i].key # id) => ret'.value = <<>>
    /\ GetAll => ret'.value = Values(todos)

\* C19, as stated: a save, update or delete whose file write fails raises and keeps
\* its mutation of the mapping; the mapping then differs from the file, and get
\* and get_all return the mapping with the mutation.
C19_FailedWriteDiverges ==
  [][/\ KeepsMutation
     /\ ret'.outcome = "OSError" => ~FileMatches(file', todos')
     /\ ReadsAfterFailure]_vars

\* C19, amended: a save, update or delete whose file write fails raises and keeps
\* its mutation of the mapping; the file is as it was before the call or is left
\* without a complete document, so the mapping differs from the file when the call
\* changed the mapping and the file matched it before; get and get_all return the
\* mapping with the mutation.
C19_FailedWriteNotRolledBack ==
  [][/\ KeepsMutation
     /\ ret'.outcome = "OSError" =>
          /\ file' \in {file, Torn}
          /\ (todos' # todos /\ FileMatches(file, todos)) => ~FileMatches(file', todos')
          /\ file' = Torn => ~FileMatches(file', todos')
     /\ ReadsAfterFailure]_vars

\* a get_all right after a delete whose write failed: two records were saved, one
\* is returned and the file still holds both
C19_Witness ==
  /\ ret.op = "get_all" /\ Len(ret.value) = 1
  /\ failures > 0
  /\ file.kind = "json" /\ Len(file.objs) = 2
  /\ Len(todos) = 1


\* thread t is inside a save that has taken its id from _next_id
SaveHasId(t) ==
  threads[t].op = "save" /\ threads[t].pc \notin {"idle", "next_id", "next_id_max"}

\* thread t is inside a save that has stored its record (line 93) and not yet returned
SaveHasPut(t) == SaveHasId(t) /\ threads[t].pc # "save_put"

\* C20 as claimed: two saves in progress at the same time hold distinct ids (the
\* ids they return), and once both have stored their records the mapping holds
\* under each id the record that call created.
C20_ConcurrentSavesDistinct ==
  \A t, u \in Threads :
    (t # u /\ SaveHasId(t) /\ SaveHasId(u)) =>
      /\ threads[t].id # threads[u].id
      /\ (SaveHasPut(t) /\ SaveHasPut(u)) =>
           /\ DictHas(todos, threads[t].id)
           /\ DictGet(todos, threads[t].id) = threads[t].todo[1]

=============================================================================
